---- MODULE Spec2Model ----
(***************************************************************************)
(* Model of the Fluxel SWC transform, crates/plugin/src/sample.rs:         *)
(* FluxelTransform::visit_mut_module rewrites the default-exported         *)
(* function component of a module into a custom-element class, a           *)
(* customElements.define call and a re-pointed default export.             *)
(*                                                                         *)
(* A name (JsWord) is a sequence of characters; a character is a string.   *)
(* The one non-ASCII uppercase letter of the alphabet, LATIN CAPITAL       *)
(* LETTER E WITH ACUTE, is written "U+00C9" and its lowercase "U+00E9".    *)
(***************************************************************************)
EXTENDS Integers, Sequences, FiniteSets, TLC

VARIABLES body, pc, default_fn_name, stmt_idx, tag_name, class_ident,
          class_decl, define_call, input, calls

vars == <<body, pc, default_fn_name, stmt_idx, tag_name, class_ident,
          class_decl, define_call, input, calls>>

(* ---------------------------- bounds ----------------------------------- *)

MaxItems == 3

MaxNameLen == 1

MaxCalls == 2

(* ------------------------- Option<T> ----------------------------------- *)

None == [some |-> FALSE]

Some(v) == [some |-> TRUE, val |-> v]

(* --------------------------- characters -------------------------------- *)

AsciiUpper ==
  <<"A","B","C","D","E","F","G","H","I","J","K","L","M",
    "N","O","P","Q","R","S","T","U","V","W","X","Y","Z">>

AsciiLower ==
  <<"a","b","c","d","e","f","g","h","i","j","k","l","m",
    "n","o","p","q","r","s","t","u","v","w","x","y","z">>

NonAsciiUpper == {"U+00C9"}

is_ascii_uppercase(c) == \E k \in 1..Len(AsciiUpper) : AsciiUpper[k] = c

\* char::is_uppercase: the Unicode Uppercase property, not only A-Z
is_uppercase(c) == is_ascii_uppercase(c) \/ c \in NonAsciiUpper

\* char::to_ascii_lowercase: maps A-Z to a-z and leaves every other char alone
to_ascii_lowercase(c) ==
  IF is_ascii_uppercase(c)
    THEN AsciiLower[CHOOSE k \in 1..Len(AsciiUpper) : AsciiUpper[k] = c]
    ELSE c

(* ----------------------- tag name derivation --------------------------- *)

RECURSIVE flat_map_kebab(_)
\* .chars().flat_map(|c| if c.is_uppercase() { ['-', lower] } else { [c] })
flat_map_kebab(s) ==
  IF s = <<>> THEN <<>>
  ELSE (IF is_uppercase(Head(s))
          THEN <<"-", to_ascii_lowercase(Head(s))>>
          ELSE <<Head(s)>>) \o flat_map_kebab(Tail(s))

RECURSIVE trim_start_matches(_, _)
\* str::trim_start_matches(c): removes every leading repetition of c
trim_start_matches(s, c) ==
  IF s # <<>> /\ Head(s) = c THEN trim_start_matches(Tail(s), c) ELSE s

FluxelPrefix == <<"f","l","u","x","e","l","-">>

\* format!("fluxel-{}", kebab.trim_start_matches('-'))
TagName(sym) == FluxelPrefix \o trim_start_matches(flat_map_kebab(sym), "-")

ElementSuffix == <<"E","l","e","m","e","n","t">>

\* Ident::new(format!("{}Element", fn_id.0))
ClassIdent(sym) == sym \o ElementSuffix

(* ------------------------------ AST ------------------------------------ *)

Ident(sym) == [kind |-> "Ident", sym |-> sym]

Str(value) == [kind |-> "Str", value |-> value]

\* ModuleItem::Stmt(Stmt::Expr(..)), e.g. the test fixture `foo === bar;`
PlainStmt ==
  [type |-> "ExprStmt",
   expr |-> [kind |-> "Bin", op |-> "===",
             left |-> Ident(<<"f","o","o">>), right |-> Ident(<<"b","a","r">>)]]

\* ModuleItem::Stmt(Stmt::Decl(Decl::Fn(..))): `function n() {}`
FnDeclItem(n) == [type |-> "FnDecl", ident |-> Ident(n)]

\* ModuleDecl::ExportDefaultDecl with DefaultDecl::Fn(FnExpr { ident, .. })
ExportDefaultFn(optName) ==
  [type |-> "ExportDefaultDecl", decl |-> [kind |-> "Fn", ident |-> optName]]

\* ModuleDecl::ExportDefaultDecl with DefaultDecl::Ident(ident)
ExportDefaultIdent(n) ==
  [type |-> "ExportDefaultDecl", decl |-> [kind |-> "Ident", ident |-> Ident(n)]]

\* ModuleDecl::ExportDefaultDecl with DefaultDecl::Class(..): `export default class {}`
ExportDefaultClass ==
  [type |-> "ExportDefaultDecl", decl |-> [kind |-> "Class", ident |-> None]]

\* ModuleDecl::ExportDefaultExpr: `export default 42`, not an ExportDefaultDecl
ExportDefaultExpr == [type |-> "ExportDefaultExpr", expr |-> [kind |-> "Num"]]

(* ------------------------- 1. scan (lines 14-30) ----------------------- *)

\* variant: an anonymous function falls back to the name `default`
MatchDecl_anonDefault(decl, prev) ==
  CASE decl.kind = "Fn" ->
         (IF decl.ident.some THEN decl.ident
          ELSE Some(<<"d","e","f","a","u","l","t">>))
    [] decl.kind = "Ident" -> Some(decl.ident.sym)
    [] OTHER -> prev

\* the match on export.decl: Fn takes the optional ident, Ident takes the
\* ident, every other declaration leaves default_fn_name as it was
MatchDecl(decl, prev) ==
  CASE decl.kind = "Fn" -> decl.ident
    [] decl.kind = "Ident" -> Some(decl.ident.sym)
    [] OTHER -> prev

\* variant: a plain function declaration is matched like a default export
ScanItem_plainFn(acc, i, item) ==
  IF item.type = "ExportDefaultDecl"
    THEN [idx |-> Some(i), name |-> MatchDecl(item.decl, acc.name)]
    ELSE IF item.type = "FnDecl"
      THEN [idx |-> Some(i), name |-> Some(item.ident.sym)]
      ELSE acc

\* one iteration of the loop; i is the 0-based index of enumerate()
ScanItem(acc, i, item) ==
  IF item.type = "ExportDefaultDecl"
    THEN [idx |-> Some(i), name |-> MatchDecl(item.decl, acc.name)]
    ELSE acc

RECURSIVE ScanFrom(_, _, _)
ScanFrom(b, k, acc) ==
  IF k > Len(b) THEN acc
  ELSE ScanFrom(b, k + 1, ScanItem(acc, k - 1, b[k]))

\* for (i, item) in m.body.iter().enumerate() { .. }
ScanBody(b) == ScanFrom(b, 1, [idx |-> None, name |-> None])

(* -------------------- 3. class synthesis (lines 55-173) ---------------- *)

VarDeclConst(name, init) ==
  [kind |-> "VarDecl", declKind |-> "const", name |-> name, init |-> init]

CallExpr(callee, args) == [kind |-> "Call", callee |-> callee, args |-> args]

MemberExpr(obj, prop) == [kind |-> "Member", obj |-> obj, prop |-> prop]

PropsName == <<"_","_","p","r","o","p","s">>

NodeName == <<"_","n">>

\* const __props = {}; const _n = <Fn>(__props);
\* this.attachShadow({mode:'open'}).appendChild(_n);
CtorBody(sym) ==
  << VarDeclConst(PropsName, [kind |-> "Object", props |-> <<>>]),
     VarDeclConst(NodeName, CallExpr(Ident(sym), <<Ident(PropsName)>>)),
     [kind |-> "ExprStmt",
      expr |-> CallExpr(
        MemberExpr(
          CallExpr(MemberExpr([kind |-> "This"], "attachShadow"),
                   << [kind |-> "Object",
                       props |-> << [key |-> "mode", value |-> Str(<<"o","p","e","n">>)] >>] >>),
          "appendChild"),
        <<Ident(NodeName)>>)] >>

Constructor(sym) ==
  [kind |-> "Constructor", key |-> "constructor", params |-> <<>>,
   body |-> CtorBody(sym)]

ClassDecl(sym, cls) ==
  [type |-> "ClassDecl", ident |-> Ident(cls),
   super_class |-> Ident(<<"H","T","M","L","E","l","e","m","e","n","t">>),
   body |-> <<Constructor(sym)>>]

(* --------------- 4. registration synthesis (lines 175-199) ------------- *)

\* variant: the class is passed by name, as a string literal
DefineCall_strClass(tag, cls) ==
  [type |-> "ExprStmt",
   expr |-> CallExpr(MemberExpr(Ident(<<"c","u","s","t","o","m","E","l","e","m","e","n","t","s">>),
                                "define"),
                     <<Str(tag), Str(cls)>>)]

\* customElements.define('<tag>', <Class>)
DefineCall(tag, cls) ==
  [type |-> "ExprStmt",
   expr |-> CallExpr(MemberExpr(Ident(<<"c","u","s","t","o","m","E","l","e","m","e","n","t","s">>),
                                "define"),
                     <<Str(tag), Ident(cls)>>)]

(* ------------------------ 5. splice (lines 201-214) -------------------- *)

\* variant: the class is re-exported as a class declaration, not by identifier
NewDefaultExport_class(cls) ==
  [type |-> "ExportDefaultDecl", decl |-> [kind |-> "Class", ident |-> Some(cls)]]

\* the third replacement item: ExportDefaultDecl { decl: DefaultDecl::Ident(class_ident) }
NewDefaultExport(cls) == ExportDefaultIdent(cls)

\* variant: the range i..=i+1 also removes the item after the export
Splice_dropNext(b, i, repl) == SubSeq(b, 1, i) \o repl \o SubSeq(b, i + 3, Len(b))

\* variant: the range i..i inserts and removes nothing
Splice_insertOnly(b, i, repl) == SubSeq(b, 1, i) \o repl \o SubSeq(b, i + 1, Len(b))

\* variant: the new default export is left out of the replacement
Splice_partial(b, i, repl) ==
  SubSeq(b, 1, i) \o SubSeq(repl, 1, 2) \o SubSeq(b, i + 2, Len(b))

\* m.body.splice(i..=i, repl) with a 0-based i
Splice(b, i, repl) == SubSeq(b, 1, i) \o repl \o SubSeq(b, i + 2, Len(b))

(* ------------------------- input modules ------------------------------- *)

\* every character of the alphabet may start an identifier
Alphabet == {"a", "B", "U+00C9"}

RECURSIVE NamesOfLen(_)
NamesOfLen(k) ==
  IF k = 1 THEN { <<c>> : c \in Alphabet }
  ELSE { Append(n, c) : n \in NamesOfLen(k - 1), c \in Alphabet }

ExampleNames ==
  { <<"F","o","o">>, <<"m","y","B","u","t","t","o","n">>,
    <<"B","u","t","t","o","n">>, <<"H","T","T","P","B","u","t","t","o","n">>,
    <<"$","_">>, <<"h","2">>, <<"a","U+00C9">> }

Names == UNION { NamesOfLen(k) : k \in 1..MaxNameLen } \cup ExampleNames

\* a second identifier of the module, distinct from every name of Names
OtherName == <<"g">>

ItemsOver(n) ==
  { PlainStmt, FnDeclItem(n), ExportDefaultFn(Some(n)),
    ExportDefaultFn(Some(OtherName)), ExportDefaultFn(None),
    ExportDefaultIdent(n),
    ExportDefaultClass, ExportDefaultExpr }

ModulesOver(n) == UNION { [1..k -> ItemsOver(n)] : k \in 0..MaxItems }

(* ----------------------------- actions --------------------------------- *)

NoNode == [type |-> "none"]

InitWith(NameSet) ==
  /\ \E n \in NameSet : body \in ModulesOver(n)
  /\ input = body
  /\ pc = "scan"
  /\ default_fn_name = None
  /\ stmt_idx = None
  /\ tag_name = <<>>
  /\ class_ident = <<>>
  /\ class_decl = NoNode
  /\ define_call = NoNode
  /\ calls = <<>>

Init == InitWith(Names)

\* lines 14-30: the scan loop over m.body
Scan ==
  /\ pc = "scan"
  /\ default_fn_name' = ScanBody(body).name
  /\ stmt_idx' = ScanBody(body).idx
  /\ pc' = "check"
  /\ UNCHANGED <<body, tag_name, class_ident, class_decl, define_call, input, calls>>

\* lines 32-35: None => return, nothing to transform
ReturnNothing ==
  /\ pc = "check"
  /\ ~default_fn_name.some
  /\ pc' = "done"
  /\ calls' = Append(calls, [input |-> input, output |-> body, fn_id |-> None,
                             idx |-> stmt_idx, tag |-> <<>>])
  /\ UNCHANGED <<body, default_fn_name, stmt_idx, tag_name, class_ident,
                 class_decl, define_call, input>>

\* lines 37-199: tag name, class identifier, class declaration, define call
Build ==
  /\ pc = "check"
  /\ default_fn_name.some
  /\ tag_name' = TagName(default_fn_name.val)
  /\ class_ident' = ClassIdent(default_fn_name.val)
  /\ class_decl' = ClassDecl(default_fn_name.val, class_ident')
  /\ define_call' = DefineCall(tag_name', class_ident')
  /\ pc' = "splice"
  /\ UNCHANGED <<body, default_fn_name, stmt_idx, input, calls>>

\* lines 201-214: if let Some(i) = stmt_idx { m.body.splice(i..=i, [..]) }
SpliceStep ==
  /\ pc = "splice"
  /\ body' = IF stmt_idx.some
               THEN Splice(body, stmt_idx.val,
                           <<class_decl, define_call, NewDefaultExport(class_ident)>>)
               ELSE body
  /\ pc' = "done"
  /\ calls' = Append(calls, [input |-> input, output |-> body',
                             fn_id |-> default_fn_name, idx |-> stmt_idx,
                             tag |-> tag_name])
  /\ UNCHANGED <<default_fn_name, stmt_idx, tag_name, class_ident, class_decl,
                 define_call, input>>

\* lines 218-221: the host calls fluxel_plugin again, on the program it got back
Invoke ==
  /\ pc = "done"
  /\ Len(calls) < MaxCalls
  /\ input' = body
  /\ pc' = "scan"
  /\ default_fn_name' = None
  /\ stmt_idx' = None
  /\ tag_name' = <<>>
  /\ class_ident' = <<>>
  /\ class_decl' = NoNode
  /\ define_call' = NoNode
  /\ UNCHANGED <<body, calls>>

Next == Scan \/ ReturnNothing \/ Build \/ SpliceStep \/ Invoke

Spec == Init /\ [][Next]_vars

\* one call is synchronous straight-line code: every step that is enabled is taken
Fairness ==
  WF_vars(Scan) /\ WF_vars(ReturnNothing) /\ WF_vars(Build) /\ WF_vars(SpliceStep)

\* the names of the modules the progress of a call is checked on
FairNames == { <<"F","o","o">>, <<"a","B">> }

FairInit == InitWith(FairNames)

FairSpec == FairInit /\ [][Next]_vars /\ Fairness

TypeOK ==
  /\ pc \in {"scan", "check", "splice", "done"}
  /\ Len(calls) <= MaxCalls

(* ------------------------ properties: helpers -------------------------- *)

CallIds == 1..Len(calls)

Eligible(c) == c.fn_id.some

IsDefaultDecl(item) == item.type = "ExportDefaultDecl"

\* `export default ...` in either syntactic form
IsDefaultExport(item) == item.type \in {"ExportDefaultDecl", "ExportDefaultExpr"}

DefaultDeclIdx(b) == { j \in 1..Len(b) : IsDefaultDecl(b[j]) }

DefaultExportIdx(b) == { j \in 1..Len(b) : IsDefaultExport(b[j]) }

MaxOf(S) == CHOOSE m \in S : \A j \in S : j <= m

\* the item declares the binding n at module scope
Declares(item, n) ==
  \/ item.type = "FnDecl" /\ item.ident.sym = n
  \/ item.type = "ClassDecl" /\ item.ident.sym = n
  \/ /\ item.type = "ExportDefaultDecl"
     /\ item.decl.kind \in {"Fn", "Class"}
     /\ item.decl.ident = Some(n)

(* ------------------------------- C1 ------------------------------------ *)

\* C1: for every eligible call on a module of length n whose replaced
\* default-export item sits at index i, the output has length n+2, items
\* 0..i-1 are the input's, unchanged and in order, and the items after the
\* three-item region are the input's items i+1..n-1, unchanged and in order.
C1_Frame ==
  \A k \in CallIds :
    LET c == calls[k] IN
    Eligible(c) =>
      /\ c.idx.some
      /\ c.idx.val + 1 \in 1..Len(c.input)
      /\ IsDefaultDecl(c.input[c.idx.val + 1])
      /\ Len(c.output) = Len(c.input) + 2
      /\ \A j \in 1..c.idx.val : c.output[j] = c.input[j]
      /\ \A j \in (c.idx.val + 2)..Len(c.input) : c.output[j + 2] = c.input[j]

\* an eligible call whose export has an item before it and an item after it
C1_Witness ==
  \E k \in CallIds :
    /\ Eligible(calls[k])
    /\ calls[k].idx = Some(1)
    /\ Len(calls[k].input) = 3
    /\ Len(calls[k].output) = 5

(* ------------------------------- C2 ------------------------------------ *)

RegistryDefine ==
  MemberExpr(Ident(<<"c","u","s","t","o","m","E","l","e","m","e","n","t","s">>), "define")

\* C2: for every eligible call with component identifier N the region at the
\* recorded index is, in order, a class declaration named N+"Element" whose
\* sole member is a zero-argument constructor, a customElements.define call
\* whose first argument is the tag as a string literal and whose second is an
\* identifier reference to N+"Element", and a default export whose payload is
\* an identifier reference to N+"Element", never to N.
C2_Region ==
  \A k \in CallIds :
    LET c == calls[k] IN
    Eligible(c) =>
      LET N == c.fn_id.val
          cls == c.fn_id.val \o <<"E","l","e","m","e","n","t">>
          i == c.idx.val
          o == c.output
      IN /\ Len(o) >= i + 3
         /\ o[i + 1].type = "ClassDecl"
         /\ o[i + 1].ident = Ident(cls)
         /\ Len(o[i + 1].body) = 1
         /\ o[i + 1].body[1].kind = "Constructor"
         /\ o[i + 1].body[1].params = <<>>
         /\ o[i + 2].type = "ExprStmt"
         /\ o[i + 2].expr.kind = "Call"
         /\ o[i + 2].expr.callee = RegistryDefine
         /\ Len(o[i + 2].expr.args) = 2
         /\ o[i + 2].expr.args[1] = Str(c.tag)
         /\ o[i + 2].expr.args[2] = Ident(cls)
         /\ o[i + 3].type = "ExportDefaultDecl"
         /\ o[i + 3].decl.kind = "Ident"
         /\ o[i + 3].decl.ident = Ident(cls)
         /\ o[i + 3].decl.ident.sym # N

\* the region of `export default function Button` as the only item
C2_Witness ==
  \E k \in CallIds :
    /\ calls[k].input = <<ExportDefaultFn(Some(<<"B","u","t","t","o","n">>))>>
    /\ Len(calls[k].output) = 3
    /\ calls[k].output[3].decl.ident.sym =
         <<"B","u","t","t","o","n","E","l","e","m","e","n","t">>

(* ------------------------------- C3 ------------------------------------ *)

\* C3: a module that contains no default-export item is returned structurally
\* equal to its input: same items, same order, same length.
C3_NoDefaultIdentity ==
  /\ (DefaultExportIdx(input) = {}) => body = input
  /\ \A k \in CallIds :
       (DefaultExportIdx(calls[k].input) = {}) => calls[k].output = calls[k].input

\* the fixture of transform_test.rs, `foo === bar;`, after the call returned
C3_Witness ==
  /\ pc = "done"
  /\ calls # <<>>
  /\ calls[1].input = <<PlainStmt>>
  /\ calls[1].output = <<PlainStmt>>

(* ------------------------------- C4 ------------------------------------ *)

\* the component identifier a default-export declaration resolves to by itself
PayloadOf(item) ==
  CASE item.decl.kind = "Fn" -> item.decl.ident
    [] item.decl.kind = "Ident" -> Some(item.decl.ident.sym)
    [] OTHER -> None

\* C4: when a module contains more than one default-export item, the last one
\* alone decides: the recorded index and the recorded payload are both those
\* of the last default-export item, and when that item resolves to neither a
\* named function nor an identifier the module is returned unmodified,
\* whatever the earlier default exports are.
C4_LastDefaultExportDecides ==
  \A k \in CallIds :
    LET c == calls[k]
        D == DefaultDeclIdx(c.input)
    IN Cardinality(D) > 1 =>
         LET last == MaxOf(D) IN
         /\ c.idx = Some(last - 1)
         /\ c.fn_id = PayloadOf(c.input[last])
         /\ (~PayloadOf(c.input[last]).some) => c.output = c.input

(* ------------------------------- C5 ------------------------------------ *)

\* the lowercase form of a character (Unicode simple lowercase mapping)
to_lowercase(c) == IF c = "U+00C9" THEN "U+00E9" ELSE to_ascii_lowercase(c)

RECURSIVE RefWalk(_)
\* on each uppercase character a hyphen and its lowercase form, else the character
RefWalk(s) ==
  IF s = <<>> THEN <<>>
  ELSE IF is_uppercase(s[1])
    THEN <<"-", to_lowercase(s[1])>> \o RefWalk(SubSeq(s, 2, Len(s)))
    ELSE <<s[1]>> \o RefWalk(SubSeq(s, 2, Len(s)))

\* strip the hyphen left at the start, prepend the prefix
RefKebabTag(s) ==
  LET w == RefWalk(s)
      stripped == IF w # <<>> /\ w[1] = "-" THEN SubSeq(w, 2, Len(w)) ELSE w
  IN <<"f","l","u","x","e","l","-">> \o stripped

\* C5: the derived tag equals the reference kebab operator applied to the
\* component name, for every name over the alphabet: a hyphen and the
\* lowercase form for each uppercase character, the character itself
\* otherwise, the leading hyphen stripped, "fluxel-" prepended.
C5_TagIsReferenceKebab ==
  \A k \in CallIds :
    Eligible(calls[k]) => calls[k].tag = RefKebabTag(calls[k].fn_id.val)

(* ------------------------------- C6 ------------------------------------ *)

HasPrefix(s, p) == Len(s) >= Len(p) /\ SubSeq(s, 1, Len(p)) = p

\* C6: for every component identifier the transform accepts, the derived tag
\* is non-empty, begins with "fluxel-", contains at least one hyphen and
\* contains no uppercase character.
C6_TagValid ==
  \A k \in CallIds :
    Eligible(calls[k]) =>
      LET t == calls[k].tag IN
      /\ t # <<>>
      /\ HasPrefix(t, <<"f","l","u","x","e","l","-">>)
      /\ \E j \in 1..Len(t) : t[j] = "-"
      /\ \A j \in 1..Len(t) : ~is_uppercase(t[j])

(* ------------------------------- C7 ------------------------------------ *)

Element == <<"E","l","e","m","e","n","t">>

\* C7: the transform is not idempotent. Applied to its own output for an
\* eligible component N it is eligible again, with component NElement: it
\* replaces the new default export by a class NElementElement, a registration
\* of the first tag followed by "-element" for NElementElement and a default
\* export of NElementElement; after k applications the module is 2k items
\* longer than the original input.
C7_NotIdempotent ==
  \A k \in CallIds :
    Eligible(calls[1]) =>
      /\ Len(calls[k].output) = Len(calls[1].input) + 2 * k
      /\ k > 1 =>
           LET p == calls[k - 1]
               c == calls[k]
               i == calls[k].idx.val
               N == calls[k - 1].fn_id.val
           IN /\ c.input = p.output
              /\ c.output # c.input
              /\ c.fn_id = Some(N \o Element)
              /\ c.idx = Some(p.idx.val + 2)
              /\ c.tag = p.tag \o <<"-","e","l","e","m","e","n","t">>
              /\ c.output[i + 1].type = "ClassDecl"
              /\ c.output[i + 1].ident.sym = N \o Element \o Element
              /\ c.output[i + 2].expr.args =
                   <<Str(c.tag), Ident(N \o Element \o Element)>>
              /\ c.output[i + 3] = ExportDefaultIdent(N \o Element \o Element)

\* `export default function Foo` after two applications
C7_Witness ==
  /\ Len(calls) = 2
  /\ calls[1].input = <<ExportDefaultFn(Some(<<"F","o","o">>))>>
  /\ Len(calls[2].output) = 5
  /\ calls[2].tag = <<"f","l","u","x","e","l","-","f","o","o","-","e","l","e","m","e","n","t">>

(* ------------------------------- C8 ------------------------------------ *)

\* the default export is a non-function value
IsNonFunctionDefault(item) ==
  \/ item.type = "ExportDefaultExpr"
  \/ item.type = "ExportDefaultDecl" /\ item.decl.kind = "Class"

\* the default export names no component: a non-function value or an
\* anonymous function
NamesNoComponent(item) ==
  \/ IsNonFunctionDefault(item)
  \/ item.type = "ExportDefaultDecl" /\ item.decl.kind = "Fn" /\ ~item.decl.ident.some

\* C8 as stated: a module with no default export, a module whose default
\* export is a non-function value, and a module with more than one default
\* export are each returned unchanged.
C8_EveryNonMatchingShapeUnchanged ==
  \A k \in CallIds :
    LET c == calls[k]
        D == DefaultExportIdx(c.input)
    IN (\/ D = {}
        \/ \E j \in D : D = {j} /\ IsNonFunctionDefault(c.input[j])
        \/ Cardinality(D) > 1) => c.output = c.input

\* C8, amended: a module with no default export, and a module none of whose
\* default exports names a component (class or other non-function value,
\* anonymous function), is returned unchanged; a module with more than one
\* default export is returned unchanged exactly when the scan ends without a
\* component identifier, and is rewritten at its last default-export
\* declaration otherwise.
C8_NonMatchingUnchanged ==
  \A k \in CallIds :
    LET c == calls[k]
        D == DefaultExportIdx(c.input)
    IN /\ (\A j \in D : NamesNoComponent(c.input[j])) => c.output = c.input
       /\ Cardinality(D) > 1 =>
            /\ (c.output = c.input) <=> ~c.fn_id.some
            /\ c.fn_id.some =>
                 /\ c.idx = Some(MaxOf(DefaultDeclIdx(c.input)) - 1)
                 /\ Len(c.output) = Len(c.input) + 2

\* a module with two default exports, neither naming a component, returned
\* as it came
C8_Witness ==
  /\ pc = "done"
  /\ \E k \in CallIds :
       /\ calls[k].input = <<ExportDefaultClass, ExportDefaultFn(None)>>
       /\ calls[k].output = calls[k].input

(* ------------------------------- C9 ------------------------------------ *)

\* b is a with its default-export declaration at 0-based index i replaced by
\* a class declaration, a registration statement and an identifier export
FullyRewritten(a, b) ==
  /\ Len(b) = Len(a) + 2
  /\ \E i \in 0..(Len(a) - 1) :
       /\ IsDefaultDecl(a[i + 1])
       /\ SubSeq(b, 1, i) = SubSeq(a, 1, i)
       /\ b[i + 1].type = "ClassDecl"
       /\ b[i + 2].type = "ExprStmt" /\ b[i + 2].expr.callee = RegistryDefine
       /\ b[i + 3].type = "ExportDefaultDecl" /\ b[i + 3].decl.kind = "Ident"
       /\ SubSeq(b, i + 4, Len(b)) = SubSeq(a, i + 2, Len(a))

\* C9: the rewrite is all-or-nothing. During a call the module body equals
\* the input body until the single splice step, after which it is the fully
\* rewritten body with all three generated items; the body changes in no
\* other step, a call found ineligible ends with the body untouched, and
\* every call reaches the done state.
C9_AllOrNothing ==
  /\ [](\/ body = input
        \/ pc = "done" /\ FullyRewritten(input, body))
  /\ [][body' # body => pc = "splice" /\ pc' = "done"]_vars
  /\ [][(pc = "check" /\ ~default_fn_name.some) => (pc' = "done" /\ body' = body)]_vars
  /\ [][(pc = "check" /\ default_fn_name.some) => pc' = "splice"]_vars
  /\ ((pc # "done") ~> (pc = "done"))

\* the call is done and the splice has happened between two kept items
C9_Witness ==
  /\ pc = "done"
  /\ Len(input) = 3
  /\ stmt_idx = Some(1)
  /\ body # input
  /\ FullyRewritten(input, body)

(* ------------------------------- C10 ----------------------------------- *)

\* C10: when the replaced default export is the named function declaration
\* `export default function N` and no other item declares N, no item of the
\* output declares N, while the generated constructor still calls N; when the
\* replaced default export is an identifier reference to N, every other item
\* of the input, the one declaring N included, is in the output.
C10_DeclarationDropped ==
  \A k \in CallIds :
    LET c == calls[k] IN
    Eligible(c) =>
      LET i == c.idx.val
          N == c.fn_id.val
          replaced == c.input[c.idx.val + 1]
          others == (1..Len(c.input)) \ {c.idx.val + 1}
      IN /\ c.output[i + 1].body[1].body[2].init = CallExpr(Ident(N), <<Ident(PropsName)>>)
         /\ (replaced.decl.kind = "Fn" /\ \A j \in others : ~Declares(c.input[j], N))
              => /\ Declares(replaced, N)
                 /\ \A j \in 1..Len(c.output) : ~Declares(c.output[j], N)
         /\ replaced.decl.kind = "Ident"
              => \A j \in others :
                   c.output[IF j <= i THEN j ELSE j + 2] = c.input[j]

\* `function a` exported by name and dropped with its export
C10_Witness ==
  \E k \in CallIds :
    /\ calls[k].input = <<PlainStmt, ExportDefaultFn(Some(<<"a">>))>>
    /\ Len(calls[k].output) = 4
    /\ \A j \in 1..4 : ~Declares(calls[k].output[j], <<"a">>)

====
